---- MODULE Spec2Model ----
(***************************************************************************)
(* Model of check_ecas_status.py: one run of main() is a linear pipeline   *)
(* accept_terms -> authenticate -> extract -> fetch -> parse -> load ->     *)
(* compose -> send_email -> save_current_status -> print.  Runs follow     *)
(* each other (an external scheduler), sharing only the three files.       *)
(*                                                                         *)
(* Text is a sequence of characters.  "SP", "CR" and "LF" stand for the    *)
(* space, carriage return and line feed; a multi-letter token such as      *)
(* "eCAS: " stands for that literal of the source, which has no leading or *)
(* trailing whitespace of its own that any operation below would look at.  *)
(*                                                                         *)
(* Failures are the ones the program's error taxonomy names: every HTTP    *)
(* request can raise (transport error or raise_for_status), send_email can *)
(* raise (SSL connect, login, send).  The environment variables are set    *)
(* and the local filesystem accepts reads and writes.                      *)
(***************************************************************************)
EXTENDS Integers, Sequences, FiniteSets, TLC

-----------------------------------------------------------------------------
(* Bounds *)

MaxRuns == 2

MaxNodes == 2

MaxItems == 2

-----------------------------------------------------------------------------
(* Text *)

Whitespace == {"SP", "CR", "LF"}

RECURSIVE LStrip(_)
LStrip(s) ==
    IF s = <<>> THEN <<>>
    ELSE IF Head(s) \in Whitespace THEN LStrip(Tail(s)) ELSE s

RECURSIVE RStrip(_)
RStrip(s) ==
    IF s = <<>> THEN <<>>
    ELSE IF s[Len(s)] \in Whitespace THEN RStrip(SubSeq(s, 1, Len(s) - 1)) ELSE s

\* str.strip()
Strip(s) == RStrip(LStrip(s))

\* str.split() followed by " ".join(...): runs of whitespace become one space
RECURSIVE Collapse(_)
Collapse(s) ==
    LET t == LStrip(s) IN
    IF t = <<>> THEN <<>>
    ELSE LET r == Collapse(Tail(t)) IN
         IF Len(t) > 1 /\ t[2] \in Whitespace /\ r # <<>>
         THEN <<Head(t), "SP">> \o r
         ELSE <<Head(t)>> \o r

\* Tag.get_text(" ", strip=True): every text node stripped, empty ones
\* dropped, the rest joined by one space
RECURSIVE get_text(_)
get_text(nodes) ==
    IF nodes = <<>> THEN <<>>
    ELSE LET h == Strip(Head(nodes))
             r == get_text(Tail(nodes))
         IN IF h = <<>> THEN r
            ELSE IF r = <<>> THEN h
            ELSE h \o <<"SP">> \o r

\* text-mode read (newline=None): "\r\n" and "\r" come back as "\n"
RECURSIVE read_text(_)
read_text(c) ==
    IF c = <<>> THEN <<>>
    ELSE IF Head(c) = "CR"
         THEN <<"LF">> \o read_text(IF Len(c) > 1 /\ c[2] = "LF"
                                     THEN Tail(Tail(c)) ELSE Tail(c))
         ELSE <<Head(c)>> \o read_text(Tail(c))

\* text-mode write on a POSIX host: "\n" is written as os.linesep = "\n"
write_text(s) == s

-----------------------------------------------------------------------------
(* Literals of the source *)

NameNotFound == <<"(name not found)">>

StatusNotFound == <<"[warn] Status not found">>

NoBulletItems == <<"[warn] No case-history bullet items found (see debug_case_history.html)">>

NoLinkPlaceholder == <<"No case history link found.">>

NewMarker == <<"SP", "[new]">>

BASE_URL == <<"https://services3.cic.gc.ca/ecas/">>

SECURITY_URL == <<"https://services3.cic.gc.ca/ecas/security.do">>

AUTH_URL == <<"https://services3.cic.gc.ca/ecas/authenticate.do">>

EMAIL_TO == <<"EMAIL_TO">>

-----------------------------------------------------------------------------
(* Files and pages *)

NoPage == [kind |-> "none", has_link |-> FALSE, nodes |-> <<>>, href |-> <<>>,
           row |-> FALSE, tds |-> <<>>, items |-> <<>>, text |-> <<>>]

\* the page returned by authenticate.do: the first a[href^="viewcasehistory.do"]
\* (if any) with its text nodes, and the cells of its enclosing <tr> (if any);
\* a page without the link has no such row
AuthPage(has_link, nodes, href, row, tds) ==
    [NoPage EXCEPT !.kind = "auth", !.has_link = has_link, !.nodes = nodes,
                   !.href = href, !.row = row, !.tds = tds]

\* the case-history page: the visible texts of its li.mrgn-bttm-md elements
HistoryPage(items) == [NoPage EXCEPT !.kind = "history", !.items = items]

\* a text with no markup at all
PlainText(text) == [NoPage EXCEPT !.kind = "text", !.text = text]

Absent == [exists |-> FALSE, content |-> <<>>]

TextFile(content) == [exists |-> TRUE, content |-> content]

NoDump == [exists |-> FALSE, content |-> NoPage]

Dump(page) == [exists |-> TRUE, content |-> page]

\* raw text nodes inside the status link
TextNodes == { <<"SP">>, <<"SP", "a", "LF">>, <<"a", "CR", "b">> }

RECURSIVE SeqsUpTo(_, _)
SeqsUpTo(S, n) ==
    IF n = 0 THEN { <<>> }
    ELSE LET shorter == SeqsUpTo(S, n - 1) IN
         shorter \cup { Append(q, x) : q \in shorter, x \in S }

Hrefs == { <<"viewcasehistory.do?id=1">> }

Rows == { [row |-> FALSE, tds |-> <<>>],
          [row |-> TRUE, tds |-> <<>>],
          [row |-> TRUE, tds |-> << <<"SP", "J", "SP", "LF", "D">>, <<"x">> >>] }

AuthPages ==
    { AuthPage(FALSE, <<>>, <<>>, FALSE, <<>>) }
    \cup { AuthPage(TRUE, n, h, r.row, r.tds) :
             n \in SeqsUpTo(TextNodes, MaxNodes), h \in Hrefs, r \in Rows }

ItemTexts == { <<"Submitted">>, <<"Biometrics", "SP", "given">> }

HistoryPages == { HistoryPage(i) : i \in SeqsUpTo(ItemTexts, MaxItems) }

\* what last_status.txt may hold before the first run
InitialFiles == { Absent, TextFile(<<>>), TextFile(<<"b">>),
                  TextFile(<<"SP", "a", "LF">>) }

HttpOutcomes == { "ok", "transport_error", "http_error" }

SmtpOutcomes == { "ok", "ssl_error", "login_error", "send_error" }

-----------------------------------------------------------------------------
(* State *)

VARIABLES
    pc, run,                       \* position in main(), number of the run
    last_status, debug_ecas, debug_history,           \* the three files
    html, person_name, status, case_url,              \* locals of main()
    case_html, case_details, prev, changed, subject, body,
    outbox, stdout,                \* emails delivered, lines printed (this run)
    http_log, smtp_log,            \* requests and SMTP sessions, with outcome
    started, trace, failed,        \* steps begun, steps completed, step that raised
    written,                       \* files written in this run
    link_found, items_seen,        \* what the parsers saw in this run
    file_at_start, initial_file, last_sent, last_run  \* history across runs

files == <<last_status, debug_ecas, debug_history>>

locals == <<html, person_name, status, case_url, case_html, case_details,
            prev, changed, subject, body>>

effects == <<outbox, stdout, http_log, smtp_log>>

seen == <<link_found, items_seen>>

history == <<file_at_start, initial_file, last_sent, last_run>>

vars == <<pc, run, files, locals, effects, started, trace, failed, written,
          seen, history>>

-----------------------------------------------------------------------------
(* Pure parts of the pipeline *)

\* urljoin(BASE_URL, a["href"]) for a relative href
urljoin(base, href) == base \o href

\* extract_name_status_and_link, without its debug dump
extract_name_status_and_link(page) ==
    IF ~page.has_link
    THEN [person_name |-> NameNotFound, status |-> StatusNotFound, case_url |-> <<>>]
    ELSE [person_name |-> IF page.row /\ page.tds # <<>>
                          THEN Collapse(get_text(<<page.tds[1]>>))
                          ELSE NameNotFound,
          status |-> get_text(page.nodes),
          case_url |-> urljoin(BASE_URL, page.href)]

\* soup.select("li.mrgn-bttm-md") and the text of each match
history_items(page) == IF page.kind = "history" THEN page.items ELSE <<>>

\* a variant that lists the items last to first
format_items_reversed(items) ==
    [i \in 1..Len(items) |-> <<"- ">> \o items[Len(items) + 1 - i]]

\* "\n".join(f"- {text}" for text in items), one entry per line
format_items(items) == [i \in 1..Len(items) |-> <<"- ">> \o items[i]]

\* parse_case_history_details, without its debug dump
parse_case_history_details(page) ==
    IF history_items(page) = <<>>
    THEN <<NoBulletItems>>
    ELSE format_items(history_items(page))

load_previous_status(f) == IF f.exists THEN Strip(read_text(f.content)) ELSE <<>>

save_current_status(s) == TextFile(write_text(s))

\* a variant that flags every difference, the first run included
is_changed_any_difference(p, s) == s # p

is_changed(p, s) == p # <<>> /\ s # p

make_subject(s, c) == <<"eCAS: ">> \o s \o (IF c THEN NewMarker ELSE <<>>)

make_body(now, name, s, url, details) ==
    << <<"Run time: ", now>>,
       <<"Applicant: ">> \o name,
       <<"Current status: ">> \o s,
       <<>>,
       <<"Case history link: ">> \o url,
       <<>>,
       <<"Case history details:">> >> \o details

summary_line(s, c) ==
    <<"OK - emailed ">> \o EMAIL_TO \o <<"; status='">> \o s
        \o <<"'; changed=", IF c THEN "True" ELSE "False">>

datetime_now == ToString(run)

-----------------------------------------------------------------------------
(* Control flow of main() *)

\* a variant of main() that saves the status before sending the email
StepOrderSaveFirst ==
    <<"accept_terms", "authenticate", "extract", "fetch", "parse", "load",
      "compose", "save", "send", "print">>

\* the statements of main(), top to bottom
StepOrder ==
    <<"accept_terms", "authenticate", "extract", "fetch", "parse", "load",
      "compose", "send", "save", "print">>

Position(step) == CHOOSE i \in 1..Len(StepOrder) : StepOrder[i] = step

After(step) ==
    IF Position(step) = Len(StepOrder) THEN "done"
    ELSE StepOrder[Position(step) + 1]

Begin(step) == started' = Append(started, step)

\* the step returned
Done(step) ==
    /\ pc' = After(step)
    /\ trace' = Append(trace, step)
    /\ UNCHANGED failed

\* a variant in which the exception is caught and the run goes on
RaiseAndContinue(step) ==
    /\ pc' = After(step)
    /\ failed' = step
    /\ UNCHANGED trace

\* an uncaught exception: the process exits, nothing else runs
Raise(step) ==
    /\ pc' = "aborted"
    /\ failed' = step
    /\ UNCHANGED trace

\* a variant without raise_for_status(): only transport errors raise
RequestUnchecked(method, url, step, last, outcome) ==
    /\ http_log' = Append(http_log, <<method, url, outcome>>)
    /\ IF outcome # "transport_error"
       THEN IF last THEN Done(step) ELSE UNCHANGED <<pc, trace, failed>>
       ELSE Raise(step)

\* one HTTP request followed by raise_for_status(); last: it ends the step
Request(method, url, step, last, outcome) ==
    /\ http_log' = Append(http_log, <<method, url, outcome>>)
    /\ IF outcome = "ok"
       THEN IF last THEN Done(step) ELSE UNCHANGED <<pc, trace, failed>>
       ELSE Raise(step)

-----------------------------------------------------------------------------
(* Initial state: main() entered, session created, nothing done yet *)

Init ==
    /\ pc = StepOrder[1]
    /\ run = 1
    /\ last_status \in InitialFiles
    /\ debug_ecas = NoDump
    /\ debug_history = NoDump
    /\ html = NoPage
    /\ person_name = <<>>
    /\ status = <<>>
    /\ case_url = <<>>
    /\ case_html = NoPage
    /\ case_details = <<>>
    /\ prev = <<>>
    /\ changed = FALSE
    /\ subject = <<>>
    /\ body = <<>>
    /\ outbox = <<>>
    /\ stdout = <<>>
    /\ http_log = <<>>
    /\ smtp_log = <<>>
    /\ started = <<>>
    /\ trace = <<>>
    /\ failed = "none"
    /\ written = {}
    /\ link_found = FALSE
    /\ items_seen = <<>>
    /\ file_at_start = last_status
    /\ initial_file = last_status
    /\ last_sent = [any |-> FALSE, status |-> <<>>]
    /\ last_run = [ok |-> FALSE, status |-> <<>>]

-----------------------------------------------------------------------------
(* Steps of main() *)

\* accept_terms, first request
AcceptTermsGet ==
    /\ pc = "accept_terms"
    /\ http_log = <<>>
    /\ Begin("accept_terms")
    /\ \E outcome \in HttpOutcomes :
         Request("GET", SECURITY_URL, "accept_terms", FALSE, outcome)
    /\ UNCHANGED <<run, files, locals, outbox, stdout, smtp_log, written, seen,
                   history>>

\* accept_terms, second request
AcceptTermsPost ==
    /\ pc = "accept_terms"
    /\ http_log # <<>>
    /\ \E outcome \in HttpOutcomes :
         Request("POST", SECURITY_URL, "accept_terms", TRUE, outcome)
    /\ UNCHANGED <<run, files, locals, outbox, stdout, smtp_log, started,
                   written, seen, history>>

Authenticate ==
    /\ pc = "authenticate"
    /\ Begin("authenticate")
    /\ \E outcome \in HttpOutcomes, page \in AuthPages :
         /\ Request("POST", AUTH_URL, "authenticate", TRUE, outcome)
         /\ html' = IF outcome = "ok" THEN page ELSE html
    /\ UNCHANGED <<run, files, person_name, status, case_url, case_html,
                   case_details, prev, changed, subject, body,
                   outbox, stdout, smtp_log, written, seen, history>>

\* a variant that treats a missing link as an error
ExtractStrict ==
    /\ pc = "extract"
    /\ Begin("extract")
    /\ LET r == extract_name_status_and_link(html) IN
         /\ person_name' = r.person_name
         /\ status' = r.status
         /\ case_url' = r.case_url
    /\ IF ~html.has_link
       THEN /\ debug_ecas' = Dump(html)
            /\ written' = written \cup {"debug_ecas_after_auth.html"}
            /\ Raise("extract")
       ELSE /\ UNCHANGED <<debug_ecas, written>>
            /\ Done("extract")
    /\ link_found' = html.has_link
    /\ html' = NoPage
    /\ UNCHANGED <<run, last_status, debug_history, case_html, case_details,
                   prev, changed, subject, body, effects, items_seen, history>>

\* html is not read again after this step; the model forgets it
Extract ==
    /\ pc = "extract"
    /\ Begin("extract")
    /\ LET r == extract_name_status_and_link(html) IN
         /\ person_name' = r.person_name
         /\ status' = r.status
         /\ case_url' = r.case_url
    /\ IF ~html.has_link
       THEN /\ debug_ecas' = Dump(html)
            /\ written' = written \cup {"debug_ecas_after_auth.html"}
       ELSE UNCHANGED <<debug_ecas, written>>
    /\ link_found' = html.has_link
    /\ html' = NoPage
    /\ Done("extract")
    /\ UNCHANGED <<run, last_status, debug_history, case_html, case_details,
                   prev, changed, subject, body, effects, items_seen, history>>

\* a variant that requests the URL even when it is empty
FetchCaseHistoryAlways ==
    /\ pc = "fetch"
    /\ Begin("fetch")
    /\ \E outcome \in HttpOutcomes, page \in HistoryPages :
         /\ Request("GET", case_url, "fetch", TRUE, outcome)
         /\ case_html' = IF outcome = "ok" THEN page ELSE case_html
    /\ UNCHANGED <<run, files, html, person_name, status, case_url,
                   case_details, prev, changed, subject, body,
                   outbox, stdout, smtp_log, written, seen, history>>

FetchCaseHistory ==
    /\ pc = "fetch"
    /\ Begin("fetch")
    /\ IF case_url = <<>>
       THEN /\ case_html' = PlainText(NoLinkPlaceholder)
            /\ Done("fetch")
            /\ UNCHANGED http_log
       ELSE \E outcome \in HttpOutcomes, page \in HistoryPages :
            /\ Request("GET", case_url, "fetch", TRUE, outcome)
            /\ case_html' = IF outcome = "ok" THEN page ELSE case_html
    /\ UNCHANGED <<run, files, html, person_name, status, case_url,
                   case_details, prev, changed, subject, body,
                   outbox, stdout, smtp_log, written, seen, history>>

\* a variant that dumps the page whatever it holds
ParseCaseHistoryAlwaysDumps ==
    /\ pc = "parse"
    /\ Begin("parse")
    /\ case_details' = parse_case_history_details(case_html)
    /\ debug_history' = Dump(case_html)
    /\ written' = written \cup {"debug_case_history.html"}
    /\ items_seen' = history_items(case_html)
    /\ case_html' = NoPage
    /\ Done("parse")
    /\ UNCHANGED <<run, last_status, debug_ecas, html, person_name, status,
                   case_url, prev, changed, subject, body, effects,
                   link_found, history>>

\* case_html is not read again after this step; the model forgets it
ParseCaseHistory ==
    /\ pc = "parse"
    /\ Begin("parse")
    /\ case_details' = parse_case_history_details(case_html)
    /\ IF history_items(case_html) = <<>>
       THEN /\ debug_history' = Dump(case_html)
            /\ written' = written \cup {"debug_case_history.html"}
       ELSE UNCHANGED <<debug_history, written>>
    /\ items_seen' = history_items(case_html)
    /\ case_html' = NoPage
    /\ Done("parse")
    /\ UNCHANGED <<run, last_status, debug_ecas, html, person_name, status,
                   case_url, prev, changed, subject, body, effects,
                   link_found, history>>

\* prev = load_previous_status(); changed = (...)
LoadPrevious ==
    /\ pc = "load"
    /\ Begin("load")
    /\ prev' = load_previous_status(last_status)
    /\ changed' = is_changed(prev', status)
    /\ Done("load")
    /\ UNCHANGED <<run, files, html, person_name, status, case_url, case_html,
                   case_details, subject, body, effects, written, seen, history>>

\* now, subject, body
Compose ==
    /\ pc = "compose"
    /\ Begin("compose")
    /\ subject' = make_subject(status, changed)
    /\ body' = make_body(datetime_now, person_name, status, case_url, case_details)
    /\ Done("compose")
    /\ UNCHANGED <<run, files, html, person_name, status, case_url, case_html,
                   case_details, prev, changed, effects, written, seen, history>>

\* a variant in which a failed send is swallowed and main() goes on
SendEmailSwallowed ==
    /\ pc = "send"
    /\ Begin("send")
    /\ \E outcome \in SmtpOutcomes :
         /\ smtp_log' = Append(smtp_log, outcome)
         /\ IF outcome = "ok"
            THEN /\ outbox' = Append(outbox, [subject |-> subject, body |-> body])
                 /\ last_sent' = [any |-> TRUE, status |-> status]
                 /\ Done("send")
            ELSE /\ RaiseAndContinue("send")
                 /\ UNCHANGED <<outbox, last_sent>>
    /\ UNCHANGED <<run, files, locals, stdout, http_log, written, seen,
                   file_at_start, initial_file, last_run>>

\* SMTP_SSL(...), login, send_message: any of them may raise
SendEmail ==
    /\ pc = "send"
    /\ Begin("send")
    /\ \E outcome \in SmtpOutcomes :
         /\ smtp_log' = Append(smtp_log, outcome)
         /\ IF outcome = "ok"
            THEN /\ outbox' = Append(outbox, [subject |-> subject, body |-> body])
                 /\ last_sent' = [any |-> TRUE, status |-> status]
                 /\ Done("send")
            ELSE /\ Raise("send")
                 /\ UNCHANGED <<outbox, last_sent>>
    /\ UNCHANGED <<run, files, locals, stdout, http_log, written, seen,
                   file_at_start, initial_file, last_run>>

SaveStatus ==
    /\ pc = "save"
    /\ Begin("save")
    /\ last_status' = save_current_status(status)
    /\ written' = written \cup {"last_status.txt"}
    /\ Done("save")
    /\ UNCHANGED <<run, debug_ecas, debug_history, locals, effects, seen, history>>

PrintSummary ==
    /\ pc = "print"
    /\ Begin("print")
    /\ stdout' = Append(stdout, summary_line(status, changed))
    /\ Done("print")
    /\ UNCHANGED <<run, files, locals, outbox, http_log, smtp_log, written,
                   seen, history>>

\* the scheduler starts the next run once this process has exited
NextRun ==
    /\ pc \in {"done", "aborted"}
    /\ run < MaxRuns
    /\ run' = run + 1
    /\ pc' = StepOrder[1]
    /\ html' = NoPage
    /\ person_name' = <<>>
    /\ status' = <<>>
    /\ case_url' = <<>>
    /\ case_html' = NoPage
    /\ case_details' = <<>>
    /\ prev' = <<>>
    /\ changed' = FALSE
    /\ subject' = <<>>
    /\ body' = <<>>
    /\ outbox' = <<>>
    /\ stdout' = <<>>
    /\ http_log' = <<>>
    /\ smtp_log' = <<>>
    /\ started' = <<>>
    /\ trace' = <<>>
    /\ failed' = "none"
    /\ written' = {}
    /\ link_found' = FALSE
    /\ items_seen' = <<>>
    /\ file_at_start' = last_status
    /\ last_run' = [ok |-> pc = "done", status |-> IF pc = "done" THEN status ELSE <<>>]
    /\ UNCHANGED <<files, initial_file, last_sent>>

\* one statement of main()
RunStep ==
    \/ AcceptTermsGet
    \/ AcceptTermsPost
    \/ Authenticate
    \/ Extract
    \/ FetchCaseHistory
    \/ ParseCaseHistory
    \/ LoadPrevious
    \/ Compose
    \/ SendEmail
    \/ SaveStatus
    \/ PrintSummary

Next ==
    \/ AcceptTermsGet
    \/ AcceptTermsPost
    \/ Authenticate
    \/ Extract
    \/ FetchCaseHistory
    \/ ParseCaseHistory
    \/ LoadPrevious
    \/ Compose
    \/ SendEmail
    \/ SaveStatus
    \/ PrintSummary
    \/ NextRun

Spec == Init /\ [][Next]_vars

-----------------------------------------------------------------------------
(* Vocabulary of the properties *)

Did(step) == \E i \in 1..Len(trace) : trace[i] = step

Began(step) == \E i \in 1..Len(started) : started[i] = step

RunEnded == pc \in {"done", "aborted"}

IsPrefix(a, b) == Len(a) <= Len(b) /\ a = SubSeq(b, 1, Len(a))

HttpFailed == \E i \in 1..Len(http_log) : http_log[i][3] # "ok"

SmtpFailed == \E i \in 1..Len(smtp_log) : smtp_log[i] # "ok"

\* the lines of an email body after "Case history details:"
DetailLines(b) == SubSeq(b, 8, Len(b))

HasNewMarker(subj) == Len(subj) >= 1 /\ subj[Len(subj)] = "[new]"

StateFileWritten == "last_status.txt" \in written

EcasDumpWritten == "debug_ecas_after_auth.html" \in written

HistoryDumpWritten == "debug_case_history.html" \in written

\* the extractor ran and found no status link
LinkMissing == Began("extract") /\ ~link_found

\* the history parser ran and found no bullet items
NoItems == Began("parse") /\ items_seen = <<>>

-----------------------------------------------------------------------------
(* Properties *)

C2_SaveAttemptedAfterFailedSend ==
    (RunEnded /\ SmtpFailed) => (Began("save") /\ StateFileWritten)

\* C2 as amended: a run whose send failed stops there; it never begins the
\* save, the state file is what it was when the run started, no email went
\* out and no summary is printed.
C2_FailedSendLeavesStateFile ==
    SmtpFailed =>
        /\ pc = "aborted"
        /\ failed = "send"
        /\ ~Began("save")
        /\ ~StateFileWritten
        /\ last_status = file_at_start
        /\ outbox = <<>>
        /\ stdout = <<>>

\* the send failed in a run whose status differs from the saved one
C2_Witness ==
    /\ SmtpFailed
    /\ pc = "aborted"
    /\ file_at_start.exists
    /\ changed
    /\ last_status = file_at_start

\* C3: when an HTTP request fails (transport error or non-success status) it
\* is the last thing the run does: the run is aborted, no SMTP session was
\* opened, no email sent, the state file is as at the start of the run and
\* nothing is printed.
C3_HttpFailureAborts ==
    HttpFailed =>
        /\ http_log[Len(http_log)][3] # "ok"
        /\ \A i \in 1..(Len(http_log) - 1) : http_log[i][3] = "ok"
        /\ pc = "aborted"
        /\ started = Append(trace, failed)
        /\ smtp_log = <<>>
        /\ outbox = <<>>
        /\ ~StateFileWritten
        /\ last_status = file_at_start
        /\ stdout = <<>>

\* the case-history GET, the fourth request, returned a non-success status
C3_Witness ==
    /\ Len(http_log) = 4
    /\ http_log[4][3] = "http_error"
    /\ pc = "aborted"
    /\ file_at_start.exists

\* C4: a missing status link or a history page without bullet items does not
\* end the run: such a run is aborted only by a failed request or a failed
\* send, otherwise it can always take its next step, and when it is done it
\* has sent exactly one email carrying the sentinel text, written the debug
\* file and printed the summary.
C4_AnomalyDoesNotAbort ==
    (LinkMissing \/ NoItems) =>
        /\ pc = "aborted" => (HttpFailed \/ SmtpFailed)
        /\ ~RunEnded => ENABLED RunStep
        /\ LinkMissing => EcasDumpWritten /\ debug_ecas.exists
        /\ NoItems => HistoryDumpWritten /\ debug_history.exists
        /\ pc = "done" =>
             /\ Len(outbox) = 1
             /\ Len(stdout) = 1
             /\ LinkMissing =>
                  /\ IsPrefix(<<"eCAS: ">> \o StatusNotFound, outbox[1].subject)
                  /\ outbox[1].body[3] = <<"Current status: ">> \o StatusNotFound
             /\ NoItems => DetailLines(outbox[1].body) = <<NoBulletItems>>

\* a run with the link present and an empty history page ran to its end
C4_Witness ==
    /\ pc = "done"
    /\ link_found
    /\ NoItems
    /\ Len(outbox) = 1

\* C5: changed is true exactly when prev is non-empty and differs from the
\* status; prev is empty when there is no state file, so a first run is never
\* flagged; the subject ends with the marker exactly when changed is true.
C5_ChangedFlag ==
    /\ Did("load") =>
         /\ changed <=> (prev # <<>> /\ prev # status)
         /\ ~file_at_start.exists => (prev = <<>> /\ ~changed)
    /\ Did("compose") => (HasNewMarker(subject) <=> changed)
    /\ \A i \in 1..Len(outbox) : HasNewMarker(outbox[i].subject) <=> changed

\* a first run, with a status that is not empty, was not flagged
C5_Witness ==
    /\ Did("compose")
    /\ ~file_at_start.exists
    /\ status # <<>>
    /\ ~changed
    /\ ~HasNewMarker(subject)

\* C6: the steps of a run begin at most once each and in the fixed order; a
\* step begins only when all earlier ones have completed, and the step that
\* raises is the last one to begin.
C6_SinglePassInOrder ==
    /\ IsPrefix(started, <<"accept_terms", "authenticate", "extract", "fetch",
                           "parse", "load", "compose", "send", "save", "print">>)
    /\ IsPrefix(trace, started)
    /\ Len(started) <= Len(trace) + 1
    /\ failed = "none" => (pc # "aborted" /\ (pc = "done" <=> Len(trace) = 10))
    /\ failed # "none" =>
         /\ pc = "aborted"
         /\ started = Append(trace, failed)
    /\ Len(http_log) <= 4
    /\ Len(smtp_log) <= 1
    /\ Len(outbox) <= 1
    /\ Len(stdout) <= 1

\* the send raised: seven steps completed, the eighth was the last to begin
C6_Witness ==
    /\ pc = "aborted"
    /\ failed = "send"
    /\ Len(trace) = 7
    /\ Len(started) = 8

\* C7: a run writes debug_ecas_after_auth.html only when the link is missing
\* and debug_case_history.html only when the parser found no bullet items;
\* with the link and at least one item found it writes neither.
C7_DebugDumpsOnlyOnAnomaly ==
    /\ EcasDumpWritten => LinkMissing
    /\ HistoryDumpWritten => NoItems
    /\ (Did("parse") /\ link_found /\ items_seen # <<>>) =>
         written \cap {"debug_ecas_after_auth.html", "debug_case_history.html"} = {}

\* a run without anomaly ended having written the state file only, while a
\* dump of an earlier run is still on disk
C7_Witness ==
    /\ pc = "done"
    /\ link_found
    /\ items_seen # <<>>
    /\ written = {"last_status.txt"}
    /\ debug_history.exists

\* C8: a first run in which everything succeeds, the link is present and the
\* history page has items, ends with the state file holding the status, and
\* one email sent, its subject "eCAS: " followed by the status and nothing
\* else, its detail lines "- item" for each item in page order.
C8_FirstRunEndToEnd ==
    (pc = "done" /\ ~file_at_start.exists /\ link_found /\ items_seen # <<>>) =>
        /\ last_status = TextFile(status)
        /\ Len(outbox) = 1
        /\ outbox[1].subject = <<"eCAS: ">> \o status
        /\ outbox[1].body[3] = <<"Current status: ">> \o status
        /\ Len(DetailLines(outbox[1].body)) = Len(items_seen)
        /\ \A i \in 1..Len(items_seen) :
             DetailLines(outbox[1].body)[i] = <<"- ">> \o items_seen[i]

\* the scenario of the specification: two different items, in page order
C8_Witness ==
    /\ pc = "done"
    /\ run = 1
    /\ ~file_at_start.exists
    /\ link_found
    /\ status = <<"a">>
    /\ items_seen = << <<"Submitted">>, <<"Biometrics", "SP", "given">> >>

\* C9 as stated: in a successful run that follows a successful run, changed
\* is true exactly when the status differs from the one the earlier run saved.
C9_ChangedIffStatusDiffers ==
    (pc = "done" /\ last_run.ok) => (changed <=> status # last_run.status)

\* C10: when the link is missing the case URL is empty, fetch makes no
\* request and yields the placeholder, the parser finds no items in it, both
\* dumps are written, debug_case_history.html holds the placeholder, and the
\* email's detail lines are the no-bullet-items warning, not the placeholder.
C10_MissingLinkSkipsFetch ==
    LinkMissing =>
        /\ case_url = <<>>
        /\ Began("fetch") => Len(http_log) = 3
        /\ pc = "parse" => case_html = PlainText(NoLinkPlaceholder)
        /\ Did("parse") =>
             /\ items_seen = <<>>
             /\ {"debug_ecas_after_auth.html",
                 "debug_case_history.html"} \subseteq written
             /\ debug_history = Dump(PlainText(NoLinkPlaceholder))
             /\ case_details = <<NoBulletItems>>
        /\ \A i \in 1..Len(outbox) :
             /\ DetailLines(outbox[i].body) = <<NoBulletItems>>
             /\ \A k \in 1..Len(outbox[i].body) :
                  outbox[i].body[k] # NoLinkPlaceholder

\* a run without the link sent its email
C10_Witness ==
    /\ LinkMissing
    /\ Len(outbox) = 1
    /\ Len(http_log) = 3
    /\ debug_history = Dump(PlainText(NoLinkPlaceholder))

====
